---- MODULE Spec2Model ----
(***************************************************************************)
(* Model of advanced-vector/vector.h: RawMemory<T> (an owned block of raw  *)
(* storage) and Vector<T> (a growable array built on it).                  *)
(*                                                                         *)
(* The heap is a set of blocks; each block has a capacity and one slot per *)
(* element.  A slot either holds no object (Raw) or a live object with a   *)
(* value.  A moved-from object is still live and has the value MovedFrom.  *)
(* Every element operation of T that may throw is a nondeterministic       *)
(* failure point of the action that models the calling member function.    *)
(***************************************************************************)
EXTENDS Integers, Sequences, FiniteSets, TLC

VARIABLES T, heap, vec, raw, last, trace

vars == <<T, heap, vec, raw, last, trace>>

\* ---------------------------------------------------------------- bounds
\* The largest capacity a vector reaches, and the largest total capacity of
\* two vectors that are alive together.
MaxCap == 4
MaxPairCap == 3
\* The largest number of PushBack calls in a recorded sequence of PushBack
\* and PopBack calls.
MaxPushes == 5

\* Vector objects, stand-alone RawMemory objects and heap blocks of the model.
VecIds == {1, 2}
RawIds == {1, 2, 3}
Blocks == {1, 2, 3}

\* Values a caller passes in; DefaultVal is T() and MovedFrom the state a
\* move leaves its source in.  Raw marks a slot that holds no live object.
Vals == {1}
\* Values pushed in a recorded sequence of PushBack and PopBack calls.
PushVals == {1, 2}
DefaultVal == 0
MovedFrom == 0 - 1
Raw == 0 - 2
Null == 0

\* ------------------------------------------------------------- raw heap
RawSlots(n) == [i \in 0..(n - 1) |-> Raw]

FreeBlock == [alloc |-> FALSE, capacity |-> 0, slots |-> RawSlots(0)]

\* The failure point chosen for one call: the stage that throws and, for a
\* stage that works through a range, the element at which it throws.
NoFail == [stage |-> "none", k |-> 0]
Fail(stage, k) == [stage |-> stage, k |-> k]
FailAt(fail, stage) == IF fail.stage = stage THEN fail.k ELSE 0 - 1

\* The running state of one call: the heap, the vectors, whether the call
\* has thrown, the value it returns, and two observations of object
\* lifetime: leak (a live object was overwritten or its block freed without
\* its destructor having run) and bad (a destructor ran on, or a value was
\* read from, a slot holding no live object; a block was freed twice), and
\* of the heap: dfree (operator delete was given a block that is not
\* allocated).
Ctx(h, vs) == [heap |-> h, vec |-> vs, threw |-> FALSE, ret |-> 0 - 1,
               leak |-> FALSE, bad |-> FALSE, dfree |-> FALSE]

Throw(c) == [c EXCEPT !.threw = TRUE]

Read(s, i) == IF i \in DOMAIN s THEN s[i] ELSE Raw

\* RawMemory::Allocate: the address of the new block (the lowest free one),
\* or null for n = 0.
Allocate(h, n) ==
    IF n = 0 THEN Null
    ELSE CHOOSE b \in Blocks : /\ ~h[b].alloc
                               /\ \A b2 \in Blocks : ~h[b2].alloc => b <= b2

\* The heap after Allocate(n).
Allocated(h, n) ==
    IF n = 0 THEN h
    ELSE [h EXCEPT ![Allocate(h, n)] =
              [alloc |-> TRUE, capacity |-> n, slots |-> RawSlots(n)]]

\* RawMemory::Deallocate = operator delete(buf); deleting null does nothing.
Deallocate(c, buf) ==
    IF buf = Null THEN c
    ELSE IF ~c.heap[buf].alloc THEN [c EXCEPT !.bad = TRUE, !.dfree = TRUE]
    ELSE [c EXCEPT !.heap[buf] = FreeBlock,
                   !.leak = c.leak \/ \E i \in DOMAIN c.heap[buf].slots :
                                          c.heap[buf].slots[i] # Raw]

\* explicit RawMemory(size_t capacity), as the object it builds.
RawMemory(h, capacity) == [buffer_ |-> Allocate(h, capacity), capacity_ |-> capacity]

EmptyRawMemory == [buffer_ |-> Null, capacity_ |-> 0]

\* ------------------------------------------------- element-range primitives
\* placement new of one element with value val at slot i of block b.
ConstructAt(c, b, i, val) ==
    IF b = Null \/ i \notin DOMAIN c.heap[b].slots THEN [c EXCEPT !.bad = TRUE]
    ELSE [c EXCEPT !.heap[b].slots[i] = val,
                   !.leak = c.leak \/ c.heap[b].slots[i] # Raw]

\* std::destroy_n(b + first, n)
DestroyN(c, b, first, n) ==
    IF n <= 0 THEN c
    ELSE IF b = Null THEN [c EXCEPT !.bad = TRUE]
    ELSE LET s == c.heap[b].slots IN
         [c EXCEPT !.heap[b].slots =
                       [i \in DOMAIN s |-> IF i >= first /\ i < first + n THEN Raw ELSE s[i]],
                   !.bad = c.bad \/ \E i \in first..(first + n - 1) : Read(s, i) = Raw]

\* std::destroy_at(b + i)
DestroyAt(c, b, i) == DestroyN(c, b, i, 1)

\* A transfer that fills the destination range back to front.
UninitializedTransferN_Reversed(c, src, sfirst, n, dst, dfirst, failAt, moving) ==
    IF n <= 0 THEN c
    ELSE IF src = Null \/ dst = Null THEN [c EXCEPT !.bad = TRUE]
    ELSE LET s == c.heap[src].slots
             d == c.heap[dst].slots
             throws == failAt >= 0 /\ failAt < n
             done == IF throws THEN failAt ELSE n
             s2 == IF moving
                   THEN [i \in DOMAIN s |->
                            IF i >= sfirst /\ i < sfirst + done THEN MovedFrom ELSE s[i]]
                   ELSE s
             d2 == IF throws THEN d
                   ELSE [i \in DOMAIN d |->
                            IF i >= dfirst /\ i < dfirst + n
                            THEN Read(s, sfirst + (n - 1) - (i - dfirst)) ELSE d[i]]
         IN [c EXCEPT !.heap[src].slots = s2,
                      !.heap[dst].slots = d2,
                      !.threw = throws]

\* std::uninitialized_move_n / std::uninitialized_copy_n from block src to a
\* different block dst.  When the constructor of element failAt throws, the
\* algorithm destroys the elements it has constructed and rethrows; the
\* sources already moved from stay moved-from.
UninitializedTransferN(c, src, sfirst, n, dst, dfirst, failAt, moving) ==
    IF n <= 0 THEN c
    ELSE IF src = Null \/ dst = Null THEN [c EXCEPT !.bad = TRUE]
    ELSE LET s == c.heap[src].slots
             d == c.heap[dst].slots
             throws == failAt >= 0 /\ failAt < n
             done == IF throws THEN failAt ELSE n
             s2 == IF moving
                   THEN [i \in DOMAIN s |->
                            IF i >= sfirst /\ i < sfirst + done THEN MovedFrom ELSE s[i]]
                   ELSE s
             d2 == IF throws THEN d
                   ELSE [i \in DOMAIN d |->
                            IF i >= dfirst /\ i < dfirst + n
                            THEN Read(s, sfirst + (i - dfirst)) ELSE d[i]]
         IN [c EXCEPT !.heap[src].slots = s2,
                      !.heap[dst].slots = d2,
                      !.threw = throws,
                      !.leak = c.leak \/ \E j \in 0..(done - 1) : Read(d, dfirst + j) # Raw,
                      !.bad = c.bad \/ \E j \in 0..(done - 1) :
                                          \/ Read(s, sfirst + j) = Raw
                                          \/ (dfirst + j) \notin DOMAIN d]

UninitializedMoveN(c, src, sfirst, n, dst, dfirst, failAt) ==
    UninitializedTransferN(c, src, sfirst, n, dst, dfirst, failAt, TRUE)

UninitializedCopyN(c, src, sfirst, n, dst, dfirst, failAt) ==
    UninitializedTransferN(c, src, sfirst, n, dst, dfirst, failAt, FALSE)

\* std::uninitialized_value_construct_n(b + first, n)
UninitializedValueConstructN(c, b, first, n, failAt) ==
    IF n <= 0 THEN c
    ELSE IF b = Null THEN [c EXCEPT !.bad = TRUE]
    ELSE LET d == c.heap[b].slots
             throws == failAt >= 0 /\ failAt < n
         IN [c EXCEPT !.heap[b].slots =
                          IF throws THEN d
                          ELSE [i \in DOMAIN d |->
                                   IF i >= first /\ i < first + n THEN DefaultVal ELSE d[i]],
                      !.threw = throws,
                      !.leak = c.leak \/ (~throws /\ \E j \in 0..(n - 1) :
                                                       Read(d, first + j) # Raw),
                      !.bad = c.bad \/ (~throws /\ \E j \in 0..(n - 1) :
                                                     (first + j) \notin DOMAIN d)]

\* std::copy(src + first, src + first + n, dst + dfirst) between two blocks:
\* copy assignment, element by element; the assignment of element failAt
\* throws and leaves the elements before it assigned.
CopyRange(c, src, first, n, dst, dfirst, failAt) ==
    IF n <= 0 THEN c
    ELSE IF src = Null \/ dst = Null THEN [c EXCEPT !.bad = TRUE]
    ELSE LET s == c.heap[src].slots
             d == c.heap[dst].slots
             throws == failAt >= 0 /\ failAt < n
             done == IF throws THEN failAt ELSE n
         IN [c EXCEPT !.heap[dst].slots =
                          [i \in DOMAIN d |->
                              IF i >= dfirst /\ i < dfirst + done
                              THEN Read(s, first + (i - dfirst)) ELSE d[i]],
                      !.threw = throws,
                      !.bad = c.bad \/ \E j \in 0..(done - 1) :
                                          \/ Read(s, first + j) = Raw
                                          \/ Read(d, dfirst + j) = Raw]

\* One move assignment inside a block: slots[to] = std::move(slots[from]).
MoveAssignSlot(sb, from, to) ==
    [slots |-> [sb.slots EXCEPT ![to] = sb.slots[from], ![from] = MovedFrom],
     bad |-> sb.bad \/ sb.slots[from] = Raw \/ sb.slots[to] = Raw]

\* std::move(first, last, d_first) inside one block, front to back; budget is
\* the number of move assignments that complete.
RECURSIVE MoveForward(_, _, _, _, _)
MoveForward(sb, first, lst, d_first, budget) ==
    IF first >= lst \/ budget = 0 THEN sb
    ELSE MoveForward(MoveAssignSlot(sb, first, d_first),
                     first + 1, lst, d_first + 1, budget - 1)

\* std::move_backward(first, last, d_last) inside one block, back to front.
RECURSIVE MoveBackward(_, _, _, _, _)
MoveBackward(sb, first, lst, d_last, budget) ==
    IF first >= lst \/ budget = 0 THEN sb
    ELSE MoveBackward(MoveAssignSlot(sb, lst - 1, d_last - 1),
                      first, lst - 1, d_last - 1, budget - 1)

\* std::move that leaves out the first element of its range.
MoveRange_SkipFirst(c, b, first, lst, d_first, failAt) ==
    IF first + 1 >= lst THEN c
    ELSE LET n == lst - first - 1
             throws == failAt >= 0 /\ failAt < n
             r == MoveForward([slots |-> c.heap[b].slots, bad |-> FALSE],
                              first + 1, lst, d_first + 1, IF throws THEN failAt ELSE n)
         IN [c EXCEPT !.heap[b].slots = r.slots, !.threw = throws,
                      !.bad = c.bad \/ r.bad]

\* The two algorithms applied to block b of the heap.  failAt is the move
\* assignment that throws (counted in the order the algorithm makes them).
MoveRange(c, b, first, lst, d_first, failAt) ==
    IF first >= lst THEN c
    ELSE LET n == lst - first
             throws == failAt >= 0 /\ failAt < n
             r == MoveForward([slots |-> c.heap[b].slots, bad |-> FALSE],
                              first, lst, d_first, IF throws THEN failAt ELSE n)
         IN [c EXCEPT !.heap[b].slots = r.slots, !.threw = throws,
                      !.bad = c.bad \/ r.bad]

\* std::move_backward that leaves out the first element of its range.
MoveBackwardRange_SkipFirst(c, b, first, lst, d_last, failAt) ==
    IF first + 1 >= lst THEN c
    ELSE LET n == lst - first - 1
             throws == failAt >= 0 /\ failAt < n
             r == MoveBackward([slots |-> c.heap[b].slots, bad |-> FALSE],
                               first + 1, lst, d_last, IF throws THEN failAt ELSE n)
         IN [c EXCEPT !.heap[b].slots = r.slots, !.threw = throws,
                      !.bad = c.bad \/ r.bad]

MoveBackwardRange(c, b, first, lst, d_last, failAt) ==
    IF first >= lst THEN c
    ELSE LET n == lst - first
             throws == failAt >= 0 /\ failAt < n
             r == MoveBackward([slots |-> c.heap[b].slots, bad |-> FALSE],
                               first, lst, d_last, IF throws THEN failAt ELSE n)
         IN [c EXCEPT !.heap[b].slots = r.slots, !.threw = throws,
                      !.bad = c.bad \/ r.bad]

\* ----------------------------------------------------------------- Vector
NoVector == [alive |-> FALSE, data_ |-> EmptyRawMemory, size_ |-> 0]

\* Vector::Size, Vector::Capacity
Size(this) == this.size_
Capacity(this) == this.data_.capacity_

\* The element type relocates by move when its move constructor cannot
\* throw or when it cannot be copied, and by copy otherwise.
RelocatesByMove == T.nothrowMove \/ ~T.copyable

\* Vector() = default
Vector_Default(c, v) ==
    [c EXCEPT !.vec[v] = [alive |-> TRUE, data_ |-> EmptyRawMemory, size_ |-> 0]]

\* explicit Vector(size_t size)
Vector_Size(c, v, size, fail) ==
    IF fail.stage = "alloc" THEN Throw(c) ELSE
    LET data_ == RawMemory(c.heap, size)
        c1 == [c EXCEPT !.heap = Allocated(c.heap, size)]
        c2 == UninitializedValueConstructN(c1, data_.buffer_, 0, size,
                                           FailAt(fail, "value"))
    IN IF c2.threw THEN Deallocate(c2, data_.buffer_)
       ELSE [c2 EXCEPT !.vec[v] = [alive |-> TRUE, data_ |-> data_, size_ |-> size]]

\* Copy construction that takes over the address of other's block.
Vector_Copy_Shallow(c, v, w, fail) ==
    [c EXCEPT !.vec[v] = [alive |-> TRUE, data_ |-> c.vec[w].data_,
                          size_ |-> c.vec[w].size_]]

\* Vector(const Vector& other)
Vector_Copy(c, v, w, fail) ==
    IF fail.stage = "alloc" THEN Throw(c) ELSE
    LET other == c.vec[w]
        data_ == RawMemory(c.heap, other.size_)
        c1 == [c EXCEPT !.heap = Allocated(c.heap, other.size_)]
        c2 == UninitializedCopyN(c1, other.data_.buffer_, 0, other.size_,
                                 data_.buffer_, 0, FailAt(fail, "copy"))
    IN IF c2.threw THEN Deallocate(c2, data_.buffer_)
       ELSE [c2 EXCEPT !.vec[v] =
                [alive |-> TRUE, data_ |-> data_, size_ |-> other.size_]]

\* RawMemory_Move with the source's members left as they were.
RawMemory_Move_NoReset(other) ==
    <<[buffer_ |-> other.buffer_, capacity_ |-> other.capacity_], other>>

\* RawMemory(RawMemory&& other): the pair <<the new object, other afterwards>>.
RawMemory_Move(other) ==
    <<[buffer_ |-> other.buffer_, capacity_ |-> other.capacity_], EmptyRawMemory>>

\* RawMemory::Swap that exchanges the addresses and not the capacities.
RawMemory_Swap_BufferOnly(this, other) ==
    <<[buffer_ |-> other.buffer_, capacity_ |-> this.capacity_],
      [buffer_ |-> this.buffer_, capacity_ |-> other.capacity_]>>

\* RawMemory::Swap: the pair <<this afterwards, other afterwards>>.
RawMemory_Swap(this, other) ==
    <<[buffer_ |-> other.buffer_, capacity_ |-> other.capacity_],
      [buffer_ |-> this.buffer_, capacity_ |-> this.capacity_]>>

\* RawMemory& operator=(RawMemory&& rhs) with this # &rhs: the pair <<this
\* afterwards, rhs afterwards>>.
RawMemory_MoveAssign(this, rhs) == RawMemory_Swap(this, rhs)

\* Move construction that leaves other.size_ as it was.
Vector_Move_KeepSize(c, v, w) ==
    LET other == c.vec[w]
        m == RawMemory_Move(other.data_)
    IN [c EXCEPT !.vec[v] = [alive |-> TRUE, data_ |-> m[1], size_ |-> other.size_],
                 !.vec[w] = [other EXCEPT !.data_ = m[2]]]

\* Vector(Vector&& other) noexcept
Vector_Move(c, v, w) ==
    LET other == c.vec[w]
        m == RawMemory_Move(other.data_)
    IN [c EXCEPT !.vec[v] = [alive |-> TRUE, data_ |-> m[1], size_ |-> other.size_],
                 !.vec[w] = [other EXCEPT !.data_ = m[2], !.size_ = 0]]

\* void Swap(Vector& other) noexcept
Swap(c, v, w) ==
    LET this == c.vec[v]
        other == c.vec[w]
        sw == RawMemory_Swap(this.data_, other.data_)
    IN [c EXCEPT !.vec[v] = [this EXCEPT !.data_ = sw[1], !.size_ = other.size_],
                 !.vec[w] = [other EXCEPT !.data_ = sw[2], !.size_ = this.size_]]

\* ~Vector(), followed by ~RawMemory() of the member data_.
Vector_Dtor(c, v) ==
    LET this == c.vec[v]
        c1 == DestroyN(c, this.data_.buffer_, 0, this.size_)
        c2 == Deallocate(c1, this.data_.buffer_)
    IN [c2 EXCEPT !.vec[v] = NoVector]

Min(a, b) == IF a < b THEN a ELSE b

\* CopyAssignNoRealloc that assigns the common prefix and sets size_, and
\* neither destroys a surplus tail nor constructs the missing one.
CopyAssignNoRealloc_PrefixOnly(c, v, w, fail) ==
    LET this == c.vec[v]
        rhs == c.vec[w]
        common == Min(this.size_, rhs.size_)
        c1 == CopyRange(c, rhs.data_.buffer_, 0, common, this.data_.buffer_, 0,
                        FailAt(fail, "assign"))
    IN IF c1.threw THEN c1 ELSE [c1 EXCEPT !.vec[v].size_ = rhs.size_]

\* void CopyAssignNoRealloc(const Vector& rhs)
CopyAssignNoRealloc(c, v, w, fail) ==
    LET this == c.vec[v]
        rhs == c.vec[w]
        common == Min(this.size_, rhs.size_)
        c1 == CopyRange(c, rhs.data_.buffer_, 0, common, this.data_.buffer_, 0,
                        FailAt(fail, "assign"))
    IN IF c1.threw THEN c1
       ELSE LET c2 == IF this.size_ > rhs.size_
                      THEN DestroyN(c1, this.data_.buffer_, rhs.size_,
                                    this.size_ - rhs.size_)
                      ELSE UninitializedCopyN(c1, rhs.data_.buffer_, this.size_,
                                              rhs.size_ - this.size_,
                                              this.data_.buffer_, this.size_,
                                              FailAt(fail, "copy"))
            IN IF c2.threw THEN c2
               ELSE [c2 EXCEPT !.vec[v].size_ = rhs.size_]

\* A local Vector object of a member function.
Tmp == 0

\* Vector& operator=(const Vector& rhs)
CopyAssign(c, v, w, fail) ==
    IF v = w THEN c
    ELSE IF c.vec[w].size_ > Capacity(c.vec[v])
    THEN LET c0 == [c EXCEPT !.vec = (Tmp :> NoVector) @@ c.vec]
             c1 == Vector_Copy(c0, Tmp, w, fail)
             c2 == IF c1.threw THEN c1 ELSE Vector_Dtor(Swap(c1, v, Tmp), Tmp)
         IN [c2 EXCEPT !.vec = [x \in VecIds |-> c2.vec[x]]]
    ELSE CopyAssignNoRealloc(c, v, w, fail)

\* Vector& operator=(Vector&& rhs) noexcept
MoveAssign(c, v, w) == IF v = w THEN c ELSE Swap(c, v, w)

\* Reserve that also reallocates down to a requested capacity that still
\* holds the elements.
Reserve_ToFit(c, v, new_capacity, fail) ==
    LET this == c.vec[v] IN
    IF new_capacity = Capacity(this) \/ new_capacity < this.size_ THEN c
    ELSE IF fail.stage = "alloc" THEN Throw(c)
    ELSE LET new_data == RawMemory(c.heap, new_capacity)
             c1 == [c EXCEPT !.heap = Allocated(c.heap, new_capacity)]
             c2 == IF RelocatesByMove
                   THEN UninitializedMoveN(c1, this.data_.buffer_, 0, this.size_,
                                           new_data.buffer_, 0, FailAt(fail, "reloc"))
                   ELSE UninitializedCopyN(c1, this.data_.buffer_, 0, this.size_,
                                           new_data.buffer_, 0, FailAt(fail, "reloc"))
         IN IF c2.threw THEN Deallocate(c2, new_data.buffer_)
            ELSE LET c3 == DestroyN(c2, this.data_.buffer_, 0, this.size_)
                     sw == RawMemory_Swap(this.data_, new_data)
                     c4 == [c3 EXCEPT !.vec[v].data_ = sw[1]]
                 IN Deallocate(c4, sw[2].buffer_)

\* Reserve relocating by move whatever the element type.
Reserve_AlwaysMove(c, v, new_capacity, fail) ==
    LET this == c.vec[v] IN
    IF new_capacity <= Capacity(this) THEN c
    ELSE IF fail.stage = "alloc" THEN Throw(c)
    ELSE LET new_data == RawMemory(c.heap, new_capacity)
             c1 == [c EXCEPT !.heap = Allocated(c.heap, new_capacity)]
             c2 == UninitializedMoveN(c1, this.data_.buffer_, 0, this.size_,
                                      new_data.buffer_, 0, FailAt(fail, "reloc"))
         IN IF c2.threw THEN Deallocate(c2, new_data.buffer_)
            ELSE LET c3 == DestroyN(c2, this.data_.buffer_, 0, this.size_)
                     sw == RawMemory_Swap(this.data_, new_data)
                     c4 == [c3 EXCEPT !.vec[v].data_ = sw[1]]
                 IN Deallocate(c4, sw[2].buffer_)

\* Reserve that frees the old block without destroying its elements.
Reserve_NoDestroy(c, v, new_capacity, fail) ==
    LET this == c.vec[v] IN
    IF new_capacity <= Capacity(this) THEN c
    ELSE IF fail.stage = "alloc" THEN Throw(c)
    ELSE LET new_data == RawMemory(c.heap, new_capacity)
             c1 == [c EXCEPT !.heap = Allocated(c.heap, new_capacity)]
             c2 == IF RelocatesByMove
                   THEN UninitializedMoveN(c1, this.data_.buffer_, 0, this.size_,
                                           new_data.buffer_, 0, FailAt(fail, "reloc"))
                   ELSE UninitializedCopyN(c1, this.data_.buffer_, 0, this.size_,
                                           new_data.buffer_, 0, FailAt(fail, "reloc"))
         IN IF c2.threw THEN Deallocate(c2, new_data.buffer_)
            ELSE LET sw == RawMemory_Swap(this.data_, new_data)
                     c4 == [c2 EXCEPT !.vec[v].data_ = sw[1]]
                 IN Deallocate(c4, sw[2].buffer_)

\* void Reserve(size_t new_capacity)
Reserve(c, v, new_capacity, fail) ==
    LET this == c.vec[v] IN
    IF new_capacity <= Capacity(this) THEN c
    ELSE IF fail.stage = "alloc" THEN Throw(c)
    ELSE LET new_data == RawMemory(c.heap, new_capacity)
             c1 == [c EXCEPT !.heap = Allocated(c.heap, new_capacity)]
             c2 == IF RelocatesByMove
                   THEN UninitializedMoveN(c1, this.data_.buffer_, 0, this.size_,
                                           new_data.buffer_, 0, FailAt(fail, "reloc"))
                   ELSE UninitializedCopyN(c1, this.data_.buffer_, 0, this.size_,
                                           new_data.buffer_, 0, FailAt(fail, "reloc"))
         IN IF c2.threw THEN Deallocate(c2, new_data.buffer_)
            ELSE LET c3 == DestroyN(c2, this.data_.buffer_, 0, this.size_)
                     sw == RawMemory_Swap(this.data_, new_data)
                     c4 == [c3 EXCEPT !.vec[v].data_ = sw[1]]
                 IN Deallocate(c4, sw[2].buffer_)

\* Resize that sets the size without constructing the new elements.
Resize_NoValueConstruct(c, v, new_size, fail) ==
    LET this == c.vec[v] IN
    IF new_size > this.size_
    THEN LET c1 == Reserve(c, v, new_size, fail) IN
         IF c1.threw THEN c1
         ELSE [c1 EXCEPT !.vec[v].size_ = new_size]
    ELSE LET c1 == DestroyN(c, this.data_.buffer_, new_size, this.size_ - new_size)
         IN [c1 EXCEPT !.vec[v].size_ = new_size]

\* void Resize(size_t new_size)
Resize(c, v, new_size, fail) ==
    LET this == c.vec[v] IN
    IF new_size > this.size_
    THEN LET c1 == Reserve(c, v, new_size, fail) IN
         IF c1.threw THEN c1
         ELSE LET c2 == UninitializedValueConstructN(c1, c1.vec[v].data_.buffer_,
                            this.size_, new_size - this.size_, FailAt(fail, "value"))
              IN IF c2.threw THEN c2 ELSE [c2 EXCEPT !.vec[v].size_ = new_size]
    ELSE LET c1 == DestroyN(c, this.data_.buffer_, new_size, this.size_ - new_size)
         IN [c1 EXCEPT !.vec[v].size_ = new_size]

\* PopBack that forgets the destructor of the last element.
PopBack_NoDestroy(c, v) ==
    LET this == c.vec[v] IN
    IF this.size_ > 0 THEN [c EXCEPT !.vec[v].size_ = this.size_ - 1] ELSE c

\* PopBack that destroys the first element in place of the last.
PopBack_DestroyFirst(c, v) ==
    LET this == c.vec[v] IN
    IF this.size_ > 0
    THEN LET c1 == DestroyAt(c, this.data_.buffer_, 0)
         IN [c1 EXCEPT !.vec[v].size_ = this.size_ - 1]
    ELSE c

\* void PopBack()
PopBack(c, v) ==
    LET this == c.vec[v] IN
    IF this.size_ > 0
    THEN LET c1 == DestroyAt(c, this.data_.buffer_, this.size_ - 1)
         IN [c1 EXCEPT !.vec[v].size_ = this.size_ - 1]
    ELSE c

\* Growth by one element.
GrownCapacity_ByOne(size_) == size_ + 1

\* The capacity of the block EmplaceBack and Emplace allocate when full.
GrownCapacity(size_) == IF size_ = 0 THEN 1 ELSE size_ * 2

\* EmplaceBack whose catch block does not destroy the new element.
EmplaceBack_NoCatch(c, v, val, fail) ==
    LET this == c.vec[v]
        size_ == this.size_
    IN
    IF size_ = Capacity(this)
    THEN IF fail.stage = "alloc" THEN Throw(c) ELSE
         LET new_data == RawMemory(c.heap, GrownCapacity(size_))
             c1 == [c EXCEPT !.heap = Allocated(c.heap, GrownCapacity(size_))]
         IN      IF fail.stage = "arg" THEN Deallocate(Throw(c1), new_data.buffer_)
                 ELSE LET c2 == ConstructAt(c1, new_data.buffer_, size_, val)
                          c3 == IF RelocatesByMove
                                THEN UninitializedMoveN(c2, this.data_.buffer_, 0, size_,
                                         new_data.buffer_, 0, FailAt(fail, "reloc"))
                                ELSE UninitializedCopyN(c2, this.data_.buffer_, 0, size_,
                                         new_data.buffer_, 0, FailAt(fail, "reloc"))
                      IN IF c3.threw
                         THEN Deallocate(c3, new_data.buffer_)
                         ELSE LET c4 == DestroyN(c3, this.data_.buffer_, 0, size_)
                                  sw == RawMemory_Swap(this.data_, new_data)
                                  c5 == [c4 EXCEPT !.vec[v].data_ = sw[1],
                                                   !.vec[v].size_ = size_ + 1,
                                                   !.ret = size_]
                              IN Deallocate(c5, sw[2].buffer_)
    ELSE IF fail.stage = "arg" THEN Throw(c)
         ELSE LET c1 == ConstructAt(c, this.data_.buffer_, size_, val)
              IN [c1 EXCEPT !.vec[v].size_ = size_ + 1, !.ret = size_]

\* template <typename... Args> T& EmplaceBack(Args&&... args); the new
\* element is built from args with value val.
EmplaceBack(c, v, val, fail) ==
    LET this == c.vec[v]
        size_ == this.size_
    IN
    IF size_ = Capacity(this)
    THEN IF fail.stage = "alloc" THEN Throw(c) ELSE
         LET new_data == RawMemory(c.heap, GrownCapacity(size_))
             c1 == [c EXCEPT !.heap = Allocated(c.heap, GrownCapacity(size_))]
         IN      IF fail.stage = "arg" THEN Deallocate(Throw(c1), new_data.buffer_)
                 ELSE LET c2 == ConstructAt(c1, new_data.buffer_, size_, val)
                          c3 == IF RelocatesByMove
                                THEN UninitializedMoveN(c2, this.data_.buffer_, 0, size_,
                                         new_data.buffer_, 0, FailAt(fail, "reloc"))
                                ELSE UninitializedCopyN(c2, this.data_.buffer_, 0, size_,
                                         new_data.buffer_, 0, FailAt(fail, "reloc"))
                      IN IF c3.threw
                         THEN Deallocate(DestroyAt(c3, new_data.buffer_, size_),
                                         new_data.buffer_)
                         ELSE LET c4 == DestroyN(c3, this.data_.buffer_, 0, size_)
                                  sw == RawMemory_Swap(this.data_, new_data)
                                  c5 == [c4 EXCEPT !.vec[v].data_ = sw[1],
                                                   !.vec[v].size_ = size_ + 1,
                                                   !.ret = size_]
                              IN Deallocate(c5, sw[2].buffer_)
    ELSE IF fail.stage = "arg" THEN Throw(c)
         ELSE LET c1 == ConstructAt(c, this.data_.buffer_, size_, val)
              IN [c1 EXCEPT !.vec[v].size_ = size_ + 1, !.ret = size_]

\* void PushBack(const T& value) and void PushBack(T&& value)
PushBack(c, v, value, fail) == EmplaceBack(c, v, value, fail)

\* The catch block of Emplace's reallocation path, followed by the
\* destructor of the local new_data while the exception propagates.
Emplace_Catch(c, new_data, index) ==
    Deallocate(DestroyN(c, new_data.buffer_, 0, index), new_data.buffer_)

\* An argument of type const T& is a value of the caller's or a reference
\* to element j of the vector the call is made on, whose value is the one
\* the element has when the reference is read.
ElemRef(j) == 10 + j
IsElemRef(arg) == arg >= ElemRef(0)
ArgValue(c, buf, arg) ==
    IF IsElemRef(arg) THEN Read(c.heap[buf].slots, arg - ElemRef(0)) ELSE arg

\* template <typename... Args> iterator Emplace(const_iterator pos, Args&&... args)
\* with pos = begin() + index.  val is the value args denote, or the element
\* of this vector args refers to; rv says that args is one rvalue of type T
\* (the call came from Insert(pos, T&&)), so that building an element from
\* args leaves args moved-from.
Emplace(c, v, index, val, rv, fail) ==
    LET this == c.vec[v]
        size_ == this.size_
        buf == this.data_.buffer_
    IN
    IF size_ = Capacity(this)
    THEN IF fail.stage = "alloc" THEN Throw(c) ELSE
         LET new_data == RawMemory(c.heap, GrownCapacity(size_))
             c1 == [c EXCEPT !.heap = Allocated(c.heap, GrownCapacity(size_))]
             c2 == UninitializedMoveN(c1, buf, 0, index, new_data.buffer_, 0,
                                      FailAt(fail, "prefix"))
         IN      IF c2.threw THEN Emplace_Catch(c2, new_data, index)
                 ELSE IF fail.stage = "arg" THEN Emplace_Catch(Throw(c2), new_data, index)
                 ELSE LET c3 == ConstructAt(c2, new_data.buffer_, index,
                                            ArgValue(c2, buf, val))
                          c4 == UninitializedMoveN(c3, buf, index, size_ - index,
                                                   new_data.buffer_, index + 1,
                                                   FailAt(fail, "suffix"))
                      IN IF c4.threw THEN Emplace_Catch(c4, new_data, index)
                         ELSE LET c5 == DestroyN(c4, buf, 0, size_)
                                  sw == RawMemory_Swap(this.data_, new_data)
                                  c6 == [c5 EXCEPT !.vec[v].data_ = sw[1],
                                                   !.vec[v].size_ = size_ + 1,
                                                   !.ret = index]
                              IN Deallocate(c6, sw[2].buffer_)
    ELSE IF fail.stage = "arg" THEN Throw(c)
    ELSE \* T tmp(std::forward<Args>(args)...)
         LET tmp == ArgValue(c, buf, val) IN
         IF size_ # 0
         THEN IF fail.stage = "last" THEN Throw(c)
              ELSE LET c1 == [ConstructAt(c, buf, size_, c.heap[buf].slots[size_ - 1])
                                 EXCEPT !.heap[buf].slots[size_ - 1] = MovedFrom]
                       c2 == MoveBackwardRange(c1, buf, index, size_ - 1, size_,
                                               FailAt(fail, "shift"))
                   IN IF c2.threw THEN DestroyAt(c2, buf, size_)
                      ELSE IF fail.stage = "assign" THEN DestroyAt(Throw(c2), buf, size_)
                      ELSE [c2 EXCEPT !.heap[buf].slots[index] = tmp,
                                      !.bad = c2.bad \/ c2.heap[buf].slots[index] = Raw,
                                      !.vec[v].size_ = size_ + 1,
                                      !.ret = index]
         ELSE IF fail.stage = "arg2" THEN Throw(c)
              ELSE LET c1 == ConstructAt(c, buf, index,
                                         IF rv THEN MovedFrom ELSE ArgValue(c, buf, val))
                   IN [c1 EXCEPT !.vec[v].size_ = size_ + 1, !.ret = index]

\* iterator Insert(const_iterator pos, const T& value) and
\* iterator Insert(const_iterator pos, T&& value)
Insert(c, v, index, value, rv, fail) == Emplace(c, v, index, value, rv, fail)

\* iterator Erase(const_iterator pos) with pos = begin() + index
Erase(c, v, index, fail) ==
    LET this == c.vec[v]
        buf == this.data_.buffer_
        c1 == MoveRange(c, buf, index + 1, this.size_, index, FailAt(fail, "shift"))
    IN IF c1.threw THEN c1
       ELSE LET c2 == DestroyAt(c1, buf, this.size_ - 1)
            IN [c2 EXCEPT !.vec[v].size_ = this.size_ - 1, !.ret = index]

\* T& operator[](size_t index) used to write an element: (*this)[index] = value
Subscript_Write(c, v, index, value) ==
    LET buf == c.vec[v].data_.buffer_ IN
    [c EXCEPT !.heap[buf].slots[index] = value,
              !.bad = c.bad \/ c.heap[buf].slots[index] = Raw]

\* A stand-alone RawMemory object: whether it is alive, and its members.
NoRawMemory == [alive |-> FALSE, mem |-> EmptyRawMemory]

\* ~RawMemory()
RawMemory_Dtor(c, this) == Deallocate(c, this.buffer_)

\* ------------------------------------------------------- failure points
\* The element types: whether T's move operations are noexcept and whether
\* T can be copied (a T that is neither does not compile; a noexcept-movable
\* T that cannot be copied behaves as the first type without its copies).
\* Copying, building from arguments and value construction may throw for
\* every T, and every allocation may throw std::bad_alloc.
Types == {[nothrowMove |-> TRUE, copyable |-> TRUE],
          [nothrowMove |-> FALSE, copyable |-> TRUE],
          [nothrowMove |-> FALSE, copyable |-> FALSE]}

Stage(stage, n) == {Fail(stage, k) : k \in 0..(n - 1)}
MoveStage(stage, n) == IF T.nothrowMove THEN {} ELSE Stage(stage, n)

ReserveFails(this, n) ==
    IF n <= Capacity(this) THEN {}
    ELSE {Fail("alloc", 0)} \cup MoveStage("reloc", this.size_)

ResizeFails(this, n) ==
    IF n > this.size_ THEN ReserveFails(this, n) \cup Stage("value", n - this.size_)
    ELSE {}

EmplaceBackFails(this) ==
    {Fail("arg", 0)} \cup
    (IF this.size_ = Capacity(this)
     THEN {Fail("alloc", 0)} \cup MoveStage("reloc", this.size_)
     ELSE {})

EmplaceFails(this, index) ==
    {Fail("arg", 0)} \cup
    (IF this.size_ = Capacity(this)
     THEN {Fail("alloc", 0)} \cup MoveStage("prefix", index)
                             \cup MoveStage("suffix", this.size_ - index)
     ELSE IF this.size_ # 0
     THEN MoveStage("last", 1) \cup MoveStage("shift", this.size_ - 1 - index)
                               \cup MoveStage("assign", 1)
     ELSE {Fail("arg2", 0)})

EraseFails(this, index) == MoveStage("shift", this.size_ - 1 - index)

SizeCtorFails(size) ==
    (IF size > 0 THEN {Fail("alloc", 0)} ELSE {}) \cup Stage("value", size)

CopyCtorFails(other) ==
    (IF other.size_ > 0 THEN {Fail("alloc", 0)} ELSE {}) \cup Stage("copy", other.size_)

CopyAssignFails(v, w) ==
    IF v = w THEN {}
    ELSE IF vec[w].size_ > Capacity(vec[v]) THEN CopyCtorFails(vec[w])
    ELSE Stage("assign", Min(vec[v].size_, vec[w].size_))
         \cup Stage("copy", vec[w].size_ - vec[v].size_)

\* ------------------------------------------------------------ the program
\* What is recorded of the last call: the member function, the object v it
\* was called on and the other object w it took, its arguments, the path it
\* took, how it ended, the stage that threw, the index its result
\* designates, and what the call did to object lifetimes (leak, bad: see
\* Ctx).
NoCall == [op |-> "none", v |-> 0, w |-> 0, path |-> "", stage |-> "none",
           index |-> 0, val |-> 0, n |-> 0, rv |-> FALSE,
           outcome |-> "ok", leak |-> FALSE, bad |-> FALSE, dfree |-> FALSE,
           ret |-> 0 - 1]

\* The record of a sequence of PushBack and PopBack calls made on a vector
\* that started empty (on: such a sequence is being recorded): the number
\* of PushBack calls that returned, the number of PopBack calls made on a
\* non-empty vector, the values pushed and not popped since, oldest first,
\* whether a PushBack threw and whether a PopBack met an empty vector.
NoTrace == [on |-> FALSE, pushes |-> 0, pops |-> 0, kept |-> << >>,
            threw |-> FALSE, overpop |-> FALSE]
EmptyTrace == [NoTrace EXCEPT !.on = TRUE]

Pushed(t, value, outcome) ==
    IF ~t.on THEN t
    ELSE IF outcome = "ok"
         THEN [t EXCEPT !.pushes = t.pushes + 1, !.kept = Append(t.kept, value)]
         ELSE [t EXCEPT !.threw = TRUE]

Popped(t, size) ==
    IF ~t.on THEN t
    ELSE IF size > 0 /\ Len(t.kept) > 0
         THEN [t EXCEPT !.pops = t.pops + 1,
                        !.kept = SubSeq(t.kept, 1, Len(t.kept) - 1)]
         ELSE [t EXCEPT !.overpop = TRUE]

Init ==
    /\ T \in Types
    /\ heap = [b \in Blocks |-> FreeBlock]
    /\ vec = [v \in VecIds |-> NoVector]
    /\ raw = [r \in RawIds |-> NoRawMemory]
    /\ last = NoCall
    /\ trace = NoTrace

\* A call is made when the record of the call before it has been cleared;
\* the program goes on until a call ends it (a failed assertion, or
\* undefined behaviour that the build turns into a crash).
Running == last = NoCall

Continue ==
    /\ last # NoCall
    /\ last.outcome # "aborted"
    /\ last' = NoCall
    /\ UNCHANGED <<T, heap, vec, raw, trace>>

TotalCapacity(vs) == vs[1].data_.capacity_ + vs[2].data_.capacity_

Bounded(vs) ==
    /\ TotalCapacity(vs) <= MaxCap
    /\ (\A v \in VecIds : vs[v].alive) => TotalCapacity(vs) <= MaxPairCap

\* One call is over: res is the state it leaves, call what is recorded of
\* it.  A call that ran into undefined behaviour returns or throws as
\* written, or ends the program; so does a call that broke an assertion
\* (asserted).
Call(call, res, asserted) ==
    \E r \in {res} :
       /\ Bounded(r.vec)
       /\ heap' = r.heap
       /\ vec' = r.vec
       /\ \E oc \in {IF r.threw THEN "threw" ELSE "ok"}
                    \cup (IF r.bad \/ asserted THEN {"aborted"} ELSE {}) :
             last' = [call EXCEPT !.outcome = oc, !.leak = r.leak,
                                  !.bad = r.bad, !.dfree = r.dfree, !.ret = r.ret]
       /\ UNCHANGED <<T, raw>>

\* A call other than PushBack and PopBack.
Step(call, res, asserted) == Call(call, res, asserted) /\ UNCHANGED trace

Here == Ctx(heap, vec)

\* Vector objects are automatic variables: they are constructed in the
\* order of their declarations and destroyed in the reverse order.
MayConstruct(v) == ~vec[v].alive /\ \A u \in VecIds : u < v => vec[u].alive
MayDestroy(v) == vec[v].alive /\ \A u \in VecIds : u > v => ~vec[u].alive

Full(this) == this.size_ = Capacity(this)

OpDefaultCtor(v) ==
    /\ Running /\ MayConstruct(v)
    /\ Step([NoCall EXCEPT !.op = "Vector()", !.v = v], Vector_Default(Here, v), FALSE)

OpSizeCtor(v, size) ==
    /\ Running /\ MayConstruct(v)
    /\ \E fail \in {NoFail} \cup SizeCtorFails(size) :
          Step([NoCall EXCEPT !.op = "Vector(size)", !.v = v, !.n = size,
                              !.stage = fail.stage],
               Vector_Size(Here, v, size, fail), FALSE)

OpCopyCtor(v, w) ==
    /\ Running /\ MayConstruct(v) /\ vec[w].alive /\ T.copyable
    /\ \E fail \in {NoFail} \cup CopyCtorFails(vec[w]) :
          Step([NoCall EXCEPT !.op = "Vector(copy)", !.v = v, !.w = w,
                              !.stage = fail.stage],
               Vector_Copy(Here, v, w, fail), FALSE)

OpMoveCtor(v, w) ==
    /\ Running /\ MayConstruct(v) /\ vec[w].alive
    /\ Step([NoCall EXCEPT !.op = "Vector(move)", !.v = v, !.w = w],
            Vector_Move(Here, v, w), FALSE)

OpDtor(v) ==
    /\ Running /\ MayDestroy(v)
    /\ Step([NoCall EXCEPT !.op = "~Vector", !.v = v], Vector_Dtor(Here, v), FALSE)

OpCopyAssign(v, w) ==
    /\ Running /\ vec[v].alive /\ vec[w].alive /\ T.copyable
    /\ \E fail \in {NoFail} \cup CopyAssignFails(v, w) :
          Step([NoCall EXCEPT !.op = "operator=(copy)", !.v = v, !.w = w,
                              !.stage = fail.stage, !.n = vec[v].size_,
                              !.path = IF v = w THEN "self"
                                       ELSE IF vec[w].size_ > Capacity(vec[v])
                                       THEN "realloc" ELSE "norealloc"],
               CopyAssign(Here, v, w, fail), FALSE)

OpMoveAssign(v, w) ==
    /\ Running /\ vec[v].alive /\ vec[w].alive
    /\ Step([NoCall EXCEPT !.op = "operator=(move)", !.v = v, !.w = w,
                           !.path = IF v = w THEN "self" ELSE "swap"],
            MoveAssign(Here, v, w), FALSE)

OpSwap(v, w) ==
    /\ Running /\ vec[v].alive /\ vec[w].alive
    /\ Step([NoCall EXCEPT !.op = "Swap", !.v = v, !.w = w], Swap(Here, v, w), FALSE)

OpReserve(v, n) ==
    /\ Running /\ vec[v].alive
    /\ \E fail \in {NoFail} \cup ReserveFails(vec[v], n) :
          Step([NoCall EXCEPT !.op = "Reserve", !.v = v, !.stage = fail.stage,
                              !.n = n,
                              !.path = IF n <= Capacity(vec[v]) THEN "noop" ELSE "realloc"],
               Reserve(Here, v, n, fail), FALSE)

OpResize(v, n) ==
    /\ Running /\ vec[v].alive
    /\ \E fail \in {NoFail} \cup ResizeFails(vec[v], n) :
          Step([NoCall EXCEPT !.op = "Resize", !.v = v, !.n = n, !.stage = fail.stage,
                              !.path = IF n > vec[v].size_ THEN "grow" ELSE "shrink"],
               Resize(Here, v, n, fail), FALSE)

OpPushBack(v, value) ==
    /\ Running /\ vec[v].alive
    /\ trace.on => trace.pushes < MaxPushes
    /\ \E fail \in {NoFail} \cup EmplaceBackFails(vec[v]) :
          Call([NoCall EXCEPT !.op = "PushBack", !.v = v, !.val = value,
                              !.stage = fail.stage,
                              !.path = IF Full(vec[v]) THEN "realloc" ELSE "inplace"],
               PushBack(Here, v, value, fail), FALSE)
    /\ trace' = Pushed(trace, value, last'.outcome)

OpPopBack(v) ==
    /\ Running /\ vec[v].alive
    /\ Call([NoCall EXCEPT !.op = "PopBack", !.v = v,
                           !.path = IF vec[v].size_ > 0 THEN "pop" ELSE "empty"],
            PopBack(Here, v), FALSE)
    /\ trace' = Popped(trace, vec[v].size_)

\* Insert and Emplace take a position in [begin(), end()); on an empty
\* vector only begin() can be passed, which the assertion rejects in a build
\* that checks assertions.
OpInsert(v, index, value, rv) ==
    /\ Running /\ vec[v].alive
    /\ index < vec[v].size_ \/ (index = 0 /\ vec[v].size_ = 0)
    /\ \E fail \in {NoFail} \cup EmplaceFails(vec[v], index) :
          Step([NoCall EXCEPT !.op = "Insert", !.v = v, !.index = index,
                              !.val = value, !.stage = fail.stage,
                              !.rv = rv,
                              !.path = IF Full(vec[v]) THEN "realloc" ELSE "inplace"],
               Insert(Here, v, index, value, rv, fail), vec[v].size_ = 0)

\* Insert(begin() + index, v[j]): the value is passed as a reference to
\* element j of the vector itself; T is copy constructible, or the call
\* would not compile.  The value element j has before the call is recorded.
OpInsertAlias(v, index, j) ==
    /\ Running /\ vec[v].alive /\ T.copyable
    /\ index < vec[v].size_ /\ j < vec[v].size_
    /\ \E fail \in {NoFail} \cup EmplaceFails(vec[v], index) :
          Step([NoCall EXCEPT !.op = "Insert(alias)", !.v = v, !.index = index,
                              !.val = heap[vec[v].data_.buffer_].slots[j],
                              !.n = j, !.stage = fail.stage,
                              !.path = IF Full(vec[v]) THEN "realloc" ELSE "inplace"],
               Insert(Here, v, index, ElemRef(j), FALSE, fail), FALSE)

OpErase(v, index) ==
    /\ Running /\ vec[v].alive
    /\ index < vec[v].size_
    /\ \E fail \in {NoFail} \cup EraseFails(vec[v], index) :
          Step([NoCall EXCEPT !.op = "Erase", !.v = v, !.index = index,
                              !.stage = fail.stage],
               Erase(Here, v, index, fail), FALSE)

OpWrite(v, index, value) ==
    /\ Running /\ vec[v].alive
    /\ index < vec[v].size_
    /\ Step([NoCall EXCEPT !.op = "operator[]", !.v = v, !.index = index,
                           !.val = value],
            Subscript_Write(Here, v, index, value), FALSE)

Next ==
    \/ \E v \in VecIds : OpDefaultCtor(v)
    \/ \E v \in VecIds, size \in 0..MaxCap : OpSizeCtor(v, size)
    \/ \E v, w \in VecIds : OpCopyCtor(v, w)
    \/ \E v, w \in VecIds : OpMoveCtor(v, w)
    \/ \E v \in VecIds : OpDtor(v)
    \/ \E v, w \in VecIds : OpCopyAssign(v, w)
    \/ \E v, w \in VecIds : OpMoveAssign(v, w)
    \/ \E v, w \in VecIds : OpSwap(v, w)
    \/ \E v \in VecIds, n \in 0..MaxCap : OpReserve(v, n)
    \/ \E v \in VecIds, n \in 0..MaxCap : OpResize(v, n)
    \/ \E v \in VecIds, value \in Vals : OpPushBack(v, value)
    \/ \E v \in VecIds : OpPopBack(v)
    \/ \E v \in VecIds, index \in 0..(MaxCap - 1), value \in Vals, rv \in BOOLEAN :
          OpInsert(v, index, value, rv)
    \/ \E v \in VecIds, index \in 0..(MaxCap - 1), j \in 0..(MaxCap - 1) :
          OpInsertAlias(v, index, j)
    \/ \E v \in VecIds, index \in 0..(MaxCap - 1) : OpErase(v, index)
    \/ \E v \in VecIds, index \in 0..(MaxCap - 1), value \in Vals : OpWrite(v, index, value)
    \/ Continue

Spec == Init /\ [][Next]_vars

\* ------------------------------ sequences of PushBack and PopBack calls
\* Vector<T> v; followed by PushBack and PopBack calls on v only.
InitPushPop ==
    /\ T \in Types
    /\ heap = [b \in Blocks |-> FreeBlock]
    /\ vec = Vector_Default(Ctx(heap, [v \in VecIds |-> NoVector]), 1).vec
    /\ raw = [r \in RawIds |-> NoRawMemory]
    /\ last = NoCall
    /\ trace = EmptyTrace

NextPushPop ==
    \/ \E value \in PushVals : OpPushBack(1, value)
    \/ OpPopBack(1)
    \/ Continue

SpecPushPop == InitPushPop /\ [][NextPushPop]_vars

\* ------------------------------------------- RawMemory objects on their own
\* One call on a RawMemory object is over: h is the heap and rs the objects
\* it leaves.
RawStep(call, c, rs) ==
    /\ heap' = c.heap
    /\ raw' = rs
    /\ last' = [call EXCEPT !.outcome = IF c.threw THEN "threw" ELSE "ok",
                            !.leak = c.leak, !.bad = c.bad, !.dfree = c.dfree]
    /\ UNCHANGED <<T, vec, trace>>

OpRawDefaultCtor(r) ==
    /\ Running /\ ~raw[r].alive
    /\ RawStep([NoCall EXCEPT !.op = "RawMemory()", !.v = r], Here,
               [raw EXCEPT ![r] = [alive |-> TRUE, mem |-> EmptyRawMemory]])

OpRawCtor(r, capacity) ==
    /\ Running /\ ~raw[r].alive
    /\ \E fail \in {NoFail} \cup (IF capacity > 0 THEN {Fail("alloc", 0)} ELSE {}) :
          RawStep([NoCall EXCEPT !.op = "RawMemory(capacity)", !.v = r, !.n = capacity,
                                 !.stage = fail.stage],
                  IF fail = NoFail
                  THEN [Here EXCEPT !.heap = Allocated(heap, capacity)]
                  ELSE Throw(Here),
                  IF fail = NoFail
                  THEN [raw EXCEPT ![r] = [alive |-> TRUE,
                                           mem |-> RawMemory(heap, capacity)]]
                  ELSE raw)

OpRawMoveCtor(r, s) ==
    /\ Running /\ ~raw[r].alive /\ raw[s].alive
    /\ LET m == RawMemory_Move(raw[s].mem) IN
       RawStep([NoCall EXCEPT !.op = "RawMemory(move)", !.v = r, !.w = s], Here,
               [raw EXCEPT ![r] = [alive |-> TRUE, mem |-> m[1]], ![s].mem = m[2]])

OpRawMoveAssign(r, s) ==
    /\ Running /\ raw[r].alive /\ raw[s].alive
    /\ LET m == RawMemory_MoveAssign(raw[r].mem, raw[s].mem) IN
       RawStep([NoCall EXCEPT !.op = "RawMemory::operator=(move)", !.v = r, !.w = s,
                              !.path = IF r = s THEN "self" ELSE "swap"],
               Here,
               IF r = s THEN raw ELSE [raw EXCEPT ![r].mem = m[1], ![s].mem = m[2]])

OpRawSwap(r, s) ==
    /\ Running /\ raw[r].alive /\ raw[s].alive /\ r # s
    /\ LET m == RawMemory_Swap(raw[r].mem, raw[s].mem) IN
       RawStep([NoCall EXCEPT !.op = "RawMemory::Swap", !.v = r, !.w = s], Here,
               [raw EXCEPT ![r].mem = m[1], ![s].mem = m[2]])

OpRawDtor(r) ==
    /\ Running /\ raw[r].alive
    /\ RawStep([NoCall EXCEPT !.op = "~RawMemory", !.v = r],
               RawMemory_Dtor(Here, raw[r].mem),
               [raw EXCEPT ![r] = NoRawMemory])

NextRaw ==
    \/ \E r \in RawIds : OpRawDefaultCtor(r)
    \/ \E r \in RawIds, capacity \in 0..MaxCap : OpRawCtor(r, capacity)
    \/ \E r, s \in RawIds : OpRawMoveCtor(r, s)
    \/ \E r, s \in RawIds : OpRawMoveAssign(r, s)
    \/ \E r, s \in RawIds : OpRawSwap(r, s)
    \/ \E r \in RawIds : OpRawDtor(r)
    \/ Continue

SpecRaw == Init /\ [][NextRaw]_vars

\* ------------------------------------------------------------- properties
\* The elements of a vector, by index.
ElemsOf(h, this) == [i \in 0..(this.size_ - 1) |-> h[this.data_.buffer_].slots[i]]

Max(a, b) == IF a > b THEN a ELSE b

\* The vector's block is allocated with the capacity the vector reports,
\* its slots [0, size_) hold live elements and its slots [size_, capacity)
\* hold none.
ValidVector(h, this) ==
    /\ 0 <= this.size_
    /\ this.size_ <= Capacity(this)
    /\ IF this.data_.buffer_ = Null THEN Capacity(this) = 0
       ELSE /\ h[this.data_.buffer_].alloc
            /\ h[this.data_.buffer_].capacity = Capacity(this)
            /\ \A i \in 0..(Capacity(this) - 1) :
                  (h[this.data_.buffer_].slots[i] # Raw) <=> (i < this.size_)

\* C1: after every public operation that returns normally, in any sequence,
\* every vector has 0 <= Size() <= Capacity(), exactly the slots [0, Size())
\* of its block hold live elements, and the slots [Size(), Capacity()) hold
\* none.
C1_SizeAndLiveSlots ==
    last.outcome = "ok" => \A v \in VecIds : vec[v].alive => ValidVector(heap, vec[v])

C1_Witness ==
    /\ last.op = "operator=(copy)" /\ last.path = "norealloc" /\ last.outcome = "ok"
    /\ vec[last.v].size_ > 0
    /\ vec[last.v].size_ < Capacity(vec[last.v])

\* C2 (as claimed): when Emplace/Insert on a full array throws while the
\* new block is built, the array has the Size(), Capacity() and element
\* values it had before the call.
C2_OriginalIntact ==
    [][(last'.op = "Insert" /\ last'.path = "realloc" /\ last'.outcome = "threw")
         => /\ vec' = vec
            /\ ElemsOf(heap', vec'[last'.v]) = ElemsOf(heap, vec[last'.v])]_vars

\* C3 (as claimed): when Emplace/Insert on a full array throws in the
\* reallocation path, every element constructed in the new block is
\* destroyed exactly once before the block is freed: none is left
\* undestroyed (leak) and no slot without a live element is destroyed (bad).
C3_NewBlockCleanedUp ==
    (last.op = "Insert" /\ last.path = "realloc" /\ last.outcome = "threw")
        => ~last.leak /\ ~last.bad

\* C4 (as claimed): if PushBack/EmplaceBack on a full array fails, the array
\* keeps its Size(), Capacity() and element values.
C4_OriginalState ==
    [][(last'.op = "PushBack" /\ last'.path = "realloc" /\ last'.outcome = "threw")
         => /\ vec' = vec
            /\ ElemsOf(heap', vec'[last'.v]) = ElemsOf(heap, vec[last'.v])]_vars

\* C4 (amended): if PushBack/EmplaceBack on a full array fails, the array
\* keeps its Size() and Capacity() and the new block is freed with no
\* element left in it; a throw from the construction of the new element
\* changes nothing at all; a throw from the relocation leaves every element
\* value as it was when T is relocated by copy, and leaves each element with
\* its value or moved-from when T can only be moved.
C4_FailedPushBack ==
    [][(last'.op = "PushBack" /\ last'.path = "realloc" /\ last'.outcome = "threw")
         => /\ vec' = vec
            /\ ~last'.leak /\ ~last'.bad
            /\ \A b \in Blocks : heap'[b].alloc = heap[b].alloc
            /\ last'.stage # "reloc" => heap' = heap
            /\ T.copyable => heap' = heap
            /\ \A i \in 0..(vec[last'.v].size_ - 1) :
                  ElemsOf(heap', vec'[last'.v])[i]
                      \in {ElemsOf(heap, vec[last'.v])[i], MovedFrom}]_vars

C4_Witness ==
    /\ last.op = "PushBack" /\ last.path = "realloc" /\ last.outcome = "threw"
    /\ last.stage = "reloc"
    /\ vec[last.v].size_ >= 2

\* C5: if copy construction throws while Reserve (also inside Resize) or the
\* growth step of PushBack/EmplaceBack transfers the elements to the new
\* block, the array keeps its Size(), Capacity() and contents, and the new
\* block is freed with no element left in it.
C5_CopyThrowsDuringTransfer ==
    [][(/\ last'.op \in {"Reserve", "Resize", "PushBack"}
        /\ last'.stage = "reloc" /\ last'.outcome = "threw"
        /\ T.copyable /\ ~T.nothrowMove)
         => /\ vec' = vec
            /\ heap' = heap
            /\ ~last'.leak /\ ~last'.bad]_vars

C5_Witness ==
    /\ last.op = "Reserve" /\ last.stage = "reloc" /\ last.outcome = "threw"
    /\ T.copyable /\ ~T.nothrowMove
    /\ vec[last.v].size_ >= 2

\* C6: Insert/Emplace at p in [0, n) on an array of size n >= 1 yields size
\* n + 1 with the elements before p unchanged, the new element at p and
\* every former element from p on one index higher, on the reallocation
\* path and on the in-place path, and returns an iterator to index p.
C6_Insert ==
    [][(last'.op = "Insert" /\ last'.outcome = "ok" /\ vec[last'.v].size_ >= 1)
         => LET v == last'.v
                p == last'.index
                n == vec[v].size_
                old == ElemsOf(heap, vec[v])
                new == ElemsOf(heap', vec'[v])
            IN /\ vec'[v].size_ = n + 1
               /\ \A i \in 0..(p - 1) : new[i] = old[i]
               /\ new[p] = last'.val
               /\ \A i \in p..(n - 1) : new[i + 1] = old[i]
               /\ last'.ret = p]_vars

C6_Witness ==
    /\ last.op = "Insert" /\ last.outcome = "ok" /\ last.path = "realloc"
    /\ last.index = 1 /\ vec[last.v].size_ = 3
    /\ ElemsOf(heap, vec[last.v])[0] # ElemsOf(heap, vec[last.v])[1]

\* C7: Erase at p in [0, n) on an array of size n >= 1 yields size n - 1
\* with the elements before p unchanged and the elements after p one index
\* lower, leaves Capacity() unchanged and returns an iterator to index p
\* (end() when the last element was erased).
C7_Erase ==
    [][(last'.op = "Erase" /\ last'.outcome = "ok")
         => LET v == last'.v
                p == last'.index
                n == vec[v].size_
                old == ElemsOf(heap, vec[v])
                new == ElemsOf(heap', vec'[v])
            IN /\ vec'[v].size_ = n - 1
               /\ \A i \in 0..(p - 1) : new[i] = old[i]
               /\ \A i \in (p + 1)..(n - 1) : new[i - 1] = old[i]
               /\ Capacity(vec'[v]) = Capacity(vec[v])
               /\ last'.ret = p
               /\ p = n - 1 => last'.ret = vec'[v].size_]_vars

C7_Witness ==
    /\ last.op = "Erase" /\ last.outcome = "ok"
    /\ last.index = 0 /\ vec[last.v].size_ = 2
    /\ ElemsOf(heap, vec[last.v])[0] # ElemsOf(heap, vec[last.v])[1]

\* C8 (as claimed): from one operation to the next the Capacity() of an
\* array does not decrease, except after a copy assignment to it that takes
\* the no-reallocation path or a move that takes it as its source.
C8_OriginalMonotone ==
    [][\A v \in VecIds :
          (vec[v].alive /\ vec'[v].alive)
          => \/ Capacity(vec'[v]) >= Capacity(vec[v])
             \/ last'.op = "operator=(copy)" /\ last'.path = "norealloc" /\ last'.v = v
             \/ last'.op \in {"Vector(move)", "operator=(move)"} /\ last'.w = v]_vars

\* C8 (amended): from one operation to the next the Capacity() of an array
\* does not decrease, except after a copy assignment to it that takes the
\* no-reallocation path, a move construction that takes it as its source,
\* or a move assignment or Swap that it takes part in on either side.
C8_Monotone ==
    [][\A v \in VecIds :
          (vec[v].alive /\ vec'[v].alive)
          => \/ Capacity(vec'[v]) >= Capacity(vec[v])
             \/ last'.op = "operator=(copy)" /\ last'.path = "norealloc" /\ last'.v = v
             \/ last'.op = "Vector(move)" /\ last'.w = v
             \/ last'.op \in {"operator=(move)", "Swap"} /\ v \in {last'.v, last'.w}]_vars

C8_Witness ==
    /\ last.op = "operator=(move)" /\ last.outcome = "ok" /\ last.v # last.w
    /\ Capacity(vec[last.v]) < Capacity(vec[last.w])

\* C9: PushBack/EmplaceBack or Insert/Emplace that returns from a call on a
\* full array leaves the capacity at max(1, 2 * previous capacity), so that
\* PushBack on a default-constructed array gives 1, 2, 4, ...; a call made
\* with spare capacity leaves Capacity() unchanged.
C9_Growth ==
    [][(last'.op \in {"PushBack", "Insert"} /\ last'.outcome \in {"ok", "threw"})
         => LET v == last'.v IN
            IF Full(vec[v])
            THEN last'.outcome = "ok"
                    => Capacity(vec'[v]) = Max(1, 2 * Capacity(vec[v]))
            ELSE Capacity(vec'[v]) = Capacity(vec[v])]_vars

C9_Witness ==
    /\ last.op = "PushBack" /\ last.outcome = "ok" /\ last.path = "realloc"
    /\ Capacity(vec[last.v]) = 4
    /\ vec[last.v].size_ = 3

\* C10 (as claimed): after RawMemory move construction or move assignment
\* from a distinct source, the target owns the source's former block and
\* capacity and the source has a null address and capacity 0.
C10_OriginalSourceEmptied ==
    [][(\/ last'.op = "RawMemory(move)"
        \/ last'.op = "RawMemory::operator=(move)" /\ last'.v # last'.w)
         => /\ raw'[last'.v].mem = raw[last'.w].mem
            /\ raw'[last'.w].mem = EmptyRawMemory]_vars

\* C10 (amended): after RawMemory move construction the target owns the
\* source's former block and capacity and the source has a null address and
\* capacity 0; after move assignment from a distinct source the target owns
\* the source's former block and capacity and the source owns the target's
\* former block and capacity (null and 0 only if the target held none).
C10_MoveTransfers ==
    [][/\ last'.op = "RawMemory(move)"
          => /\ raw'[last'.v].mem = raw[last'.w].mem
             /\ raw'[last'.w].mem = EmptyRawMemory
       /\ (last'.op = "RawMemory::operator=(move)" /\ last'.v # last'.w)
          => /\ raw'[last'.v].mem = raw[last'.w].mem
             /\ raw'[last'.w].mem = raw[last'.v].mem]_vars

C10_Witness ==
    /\ last.op = "RawMemory::operator=(move)" /\ last.v # last.w
    /\ raw[last.v].mem.buffer_ # Null
    /\ raw[last.w].mem.buffer_ # Null
    /\ raw[last.v].mem.capacity_ # raw[last.w].mem.capacity_

\* The vectors whose storage is block b.
Owners(b) == {v \in VecIds : vec[v].alive /\ vec[v].data_.buffer_ = b}
OwnersNext(b) == {v \in VecIds : vec'[v].alive /\ vec'[v].data_.buffer_ = b}

\* C11: across any sequence of operations, also failing ones, every
\* allocated block is the storage of exactly one vector, the storage of
\* every vector is an allocated block of the capacity the vector reports
\* (no block is freed while in use), no block is freed twice, no block
\* remains allocated once every vector is destroyed, and a block that stays
\* allocated changes its owner only in a move or a swap.
C11_BlockOwnership ==
    /\ [](/\ \A b \in Blocks : heap[b].alloc => Cardinality(Owners(b)) = 1
          /\ \A v \in VecIds :
                vec[v].data_.buffer_ # Null
                => /\ vec[v].alive
                   /\ heap[vec[v].data_.buffer_].alloc
                   /\ heap[vec[v].data_.buffer_].capacity = Capacity(vec[v])
          /\ ~last.dfree
          /\ (\A v \in VecIds : ~vec[v].alive) => \A b \in Blocks : ~heap[b].alloc)
    /\ [][\A b \in Blocks :
             (heap[b].alloc /\ heap'[b].alloc /\ Owners(b) # OwnersNext(b))
             => last'.op \in {"Vector(move)", "operator=(move)", "Swap"}]_vars

C11_Witness ==
    /\ last.op = "operator=(copy)" /\ last.path = "realloc" /\ last.outcome = "threw"
    /\ last.stage = "copy"
    /\ \A v \in VecIds : vec[v].alive /\ vec[v].data_.buffer_ # Null

\* The member functions that change the elements or the storage of the
\* vector they are called on and take no other vector.
Mutators == {"PushBack", "PopBack", "Insert", "Insert(alias)", "Erase", "operator[]",
             "Resize", "Reserve"}

\* C12: copy construction of B from A gives B the size and the elements of
\* A in a block of its own and leaves A's size, capacity and elements as
\* they were; no later PushBack, PopBack, Insert, Erase, element write,
\* Resize or Reserve on one vector, returning or throwing, changes the
\* size, capacity, storage or elements of the other.
C12_CopyIsIndependent ==
    [][/\ (last'.op = "Vector(copy)" /\ last'.outcome = "ok")
          => LET A == last'.w
                 B == last'.v
             IN /\ vec'[B].alive
                /\ vec'[B].size_ = vec[A].size_
                /\ ElemsOf(heap', vec'[B]) = ElemsOf(heap, vec[A])
                /\ vec'[A] = vec[A]
                /\ ElemsOf(heap', vec'[A]) = ElemsOf(heap, vec[A])
                /\ vec[A].size_ > 0
                   => /\ vec'[B].data_.buffer_ # Null
                      /\ vec'[B].data_.buffer_ # vec'[A].data_.buffer_
       /\ \A A \in VecIds :
             (vec[A].alive /\ last'.op \in Mutators /\ last'.v # A)
             => /\ vec'[A] = vec[A]
                /\ ElemsOf(heap', vec'[A]) = ElemsOf(heap, vec[A])]_vars

C12_Witness ==
    /\ last.op = "Vector(copy)" /\ last.outcome = "ok"
    /\ vec[last.w].size_ >= 1
    /\ Capacity(vec[last.w]) > vec[last.w].size_
    /\ ElemsOf(heap, vec[last.w])[0] \in Vals
    /\ ElemsOf(heap, vec[last.v]) = ElemsOf(heap, vec[last.w])
    /\ vec[last.v].data_.buffer_ # vec[last.w].data_.buffer_

\* A vector as its default constructor leaves it.
DefaultConstructed == [alive |-> TRUE, data_ |-> EmptyRawMemory, size_ |-> 0]

\* C13: move construction of B from A gives B the block, the capacity, the
\* size and so the elements, in order, that A had, allocates and frees
\* nothing, and leaves A exactly as a default-constructed vector (size 0, no
\* storage), so that A can be used as a new vector; and an operation on a
\* vector in that state changes no other vector.
C13_MoveConstruction ==
    [][/\ last'.op = "Vector(move)"
          => LET A == last'.w
                 B == last'.v
             IN /\ last'.outcome = "ok"
                /\ vec'[B] = [alive |-> TRUE, data_ |-> vec[A].data_,
                              size_ |-> vec[A].size_]
                /\ heap' = heap
                /\ ElemsOf(heap', vec'[B]) = ElemsOf(heap, vec[A])
                /\ vec'[A] = DefaultConstructed
       /\ \A A \in VecIds :
             (vec[A] = DefaultConstructed /\ last'.op \in Mutators /\ last'.v = A)
             => \A B \in VecIds \ {A} :
                   /\ vec'[B] = vec[B]
                   /\ vec[B].alive => ElemsOf(heap', vec'[B]) = ElemsOf(heap, vec[B])]_vars

C13_Witness ==
    /\ last.op = "Vector(move)"
    /\ vec[last.v].size_ = 2 /\ Capacity(vec[last.v]) > 2
    /\ ElemsOf(heap, vec[last.v])[0] # ElemsOf(heap, vec[last.v])[1]
    /\ vec[last.w] = DefaultConstructed

\* C14: a copy assignment this = rhs that returns leaves this with the size
\* and the elements of rhs and rhs as it was, whether rhs is longer than
\* this's capacity, no longer than this's size, or in between; when
\* rhs.Size() <= this's capacity, this keeps its block and capacity and the
\* set of allocated blocks is unchanged; self-assignment changes nothing.
C14_CopyAssignment ==
    [][(last'.op = "operator=(copy)" /\ last'.outcome = "ok")
         => LET this == last'.v
                rhs == last'.w
            IN /\ vec'[this].size_ = vec[rhs].size_
               /\ ElemsOf(heap', vec'[this]) = ElemsOf(heap, vec[rhs])
               /\ vec'[rhs].size_ = vec[rhs].size_
               /\ Capacity(vec'[rhs]) = Capacity(vec[rhs])
               /\ ElemsOf(heap', vec'[rhs]) = ElemsOf(heap, vec[rhs])
               /\ this # rhs => vec'[rhs] = vec[rhs]
               /\ vec[rhs].size_ <= Capacity(vec[this])
                  => /\ vec'[this].data_ = vec[this].data_
                     /\ \A b \in Blocks : heap'[b].alloc = heap[b].alloc
               /\ vec[rhs].size_ > Capacity(vec[this])
                  => Capacity(vec'[this]) = vec[rhs].size_
               /\ this = rhs => (vec' = vec /\ heap' = heap)]_vars

C14_Witness ==
    /\ last.op = "operator=(copy)" /\ last.outcome = "ok" /\ last.path = "norealloc"
    /\ last.n < vec[last.w].size_
    /\ vec[last.v].size_ < Capacity(vec[last.v])
    /\ ElemsOf(heap, vec[last.v]) = ElemsOf(heap, vec[last.w])

\* C15: after every sequence of PushBack and PopBack calls made on an
\* initially empty vector, in which every PushBack returned and no PopBack
\* met an empty vector, Size() is the number of pushes minus the number of
\* pops and the elements are the pushed values that were not popped, in the
\* order they were pushed.
C15_PushPopSequences ==
    (trace.on /\ ~trace.threw /\ ~trace.overpop)
       => /\ vec[1].size_ = trace.pushes - trace.pops
          /\ Len(trace.kept) = vec[1].size_
          /\ \A i \in 0..(vec[1].size_ - 1) :
                ElemsOf(heap, vec[1])[i] = trace.kept[i + 1]

C15_Witness ==
    /\ trace.on /\ ~trace.threw /\ ~trace.overpop
    /\ trace.pushes = MaxPushes /\ trace.pops = 2
    /\ trace.kept = <<1, 2, 1>>
    /\ last.op = "PushBack" /\ last.path = "realloc"
    /\ ElemsOf(heap, vec[1])[1] = 2

\* C16: a Reserve(new_capacity) that returns changes nothing when
\* new_capacity <= Capacity(); otherwise Capacity() becomes exactly
\* new_capacity, Size() and the elements are as before in a newly allocated
\* block, every element of the old block has been destroyed and the old
\* block has been freed.
C16_Reserve ==
    [][(last'.op = "Reserve" /\ last'.outcome = "ok")
         => LET this == last'.v
                old == vec[this].data_.buffer_
            IN /\ last'.n <= Capacity(vec[this])
                  => (vec' = vec /\ heap' = heap)
               /\ last'.n > Capacity(vec[this])
                  => /\ Capacity(vec'[this]) = last'.n
                     /\ vec'[this].size_ = vec[this].size_
                     /\ ElemsOf(heap', vec'[this]) = ElemsOf(heap, vec[this])
                     /\ ValidVector(heap', vec'[this])
                     /\ vec'[this].data_.buffer_ # old
                     /\ old # Null => heap'[old] = FreeBlock
                     /\ ~last'.leak /\ ~last'.bad
                     /\ \A w \in VecIds \ {this} : vec'[w] = vec[w]]_vars

C16_Witness ==
    /\ last.op = "Reserve" /\ last.outcome = "ok" /\ last.path = "realloc"
    /\ vec[last.v].size_ = 2 /\ Capacity(vec[last.v]) = 3
    /\ ElemsOf(heap, vec[last.v])[0] # ElemsOf(heap, vec[last.v])[1]
    /\ \E b \in Blocks : ~heap[b].alloc

\* C17: a Resize(new_size) that returns leaves Size() = new_size.  When it
\* grows the vector, the old elements are unchanged, the slots from the old
\* size to new_size hold value-constructed elements and Capacity() is the
\* larger of the old capacity and new_size.  When it shrinks the vector,
\* exactly the elements at indices >= new_size are destroyed, the elements
\* before them are unchanged and the block and Capacity() are unchanged.
C17_Resize ==
    [][(last'.op = "Resize" /\ last'.outcome = "ok")
         => LET this == last'.v
                n == last'.n
                old == vec[this]
                new == vec'[this]
            IN /\ new.size_ = n
               /\ ValidVector(heap', new)
               /\ ~last'.leak /\ ~last'.bad
               /\ n > old.size_
                  => /\ \A i \in 0..(old.size_ - 1) :
                           ElemsOf(heap', new)[i] = ElemsOf(heap, old)[i]
                     /\ \A i \in old.size_..(n - 1) :
                           ElemsOf(heap', new)[i] = DefaultVal
                     /\ Capacity(new) = Max(Capacity(old), n)
               /\ n <= old.size_
                  => /\ \A i \in 0..(n - 1) :
                           ElemsOf(heap', new)[i] = ElemsOf(heap, old)[i]
                     /\ new.data_ = old.data_
                     /\ \A i \in n..(Capacity(old) - 1) :
                           heap'[new.data_.buffer_].slots[i] = Raw
                     /\ \A b \in Blocks : heap'[b].alloc = heap[b].alloc]_vars

C17_Witness ==
    /\ last.op = "Resize" /\ last.outcome = "ok" /\ last.path = "grow"
    /\ last.n = 3 /\ Capacity(vec[last.v]) = 3
    /\ ElemsOf(heap, vec[last.v])[0] \in Vals
    /\ ElemsOf(heap, vec[last.v])[1] = DefaultVal
    /\ ElemsOf(heap, vec[last.v])[2] = DefaultVal

\* C18: PopBack on an empty vector returns without changing anything: the
\* size stays 0, the block and the capacity are the same and the heap is
\* untouched.  PopBack on a non-empty vector destroys the last element and
\* no other, decrements the size by one and leaves the other elements, the
\* block and the capacity unchanged.
C18_PopBack ==
    [][last'.op = "PopBack"
         => LET this == last'.v
                old == vec[this]
                new == vec'[this]
            IN /\ last'.outcome = "ok"
               /\ old.size_ = 0
                  => (vec' = vec /\ heap' = heap /\ new.size_ = 0)
               /\ old.size_ > 0
                  => /\ new.size_ = old.size_ - 1
                     /\ new.data_ = old.data_
                     /\ ElemsOf(heap, old)[old.size_ - 1] # Raw
                     /\ heap'[old.data_.buffer_] =
                           [heap[old.data_.buffer_] EXCEPT !.slots[old.size_ - 1] = Raw]
                     /\ \A b \in Blocks \ {old.data_.buffer_} : heap'[b] = heap[b]
                     /\ \A w \in VecIds \ {this} : vec'[w] = vec[w]
                     /\ ~last'.leak /\ ~last'.bad]_vars

C18_Witness ==
    /\ last.op = "PopBack" /\ last.outcome = "ok" /\ last.path = "empty"
    /\ vec[last.v].size_ = 0 /\ Capacity(vec[last.v]) = 2
    /\ heap[vec[last.v].data_.buffer_].alloc

\* C19: an Insert or Emplace at begin() of an empty vector with spare
\* capacity that returns leaves Size() = 1, element 0 equal to the value
\* the arguments denoted when the call started, whether the value was
\* passed as an lvalue or as an rvalue, Capacity() and the block unchanged,
\* and returns the position of element 0.
C19_EmplaceIntoEmpty ==
    [][(/\ last'.op = "Insert" /\ last'.outcome = "ok"
        /\ vec[last'.v].size_ = 0 /\ Capacity(vec[last'.v]) > 0)
         => LET this == last'.v
            IN /\ vec'[this].size_ = 1
               /\ ElemsOf(heap', vec'[this])[0] = last'.val
               /\ vec'[this].data_ = vec[this].data_
               /\ last'.ret = 0]_vars

\* C20: an Insert(begin() + index, v[j]) that returns, whose value is a
\* reference to element j of the same vector, puts at index the value
\* element j had before the call and keeps every original element's value
\* (those before index in place, those from index on one position higher),
\* on the reallocation path and on the in-place path.
C20_InsertOwnElement ==
    [][(last'.op = "Insert(alias)" /\ last'.outcome = "ok")
         => LET this == last'.v
                p == last'.index
                old == ElemsOf(heap, vec[this])
                new == ElemsOf(heap', vec'[this])
            IN /\ vec'[this].size_ = vec[this].size_ + 1
               /\ new[p] = old[last'.n]
               /\ \A i \in 0..(p - 1) : new[i] = old[i]
               /\ \A i \in p..(vec[this].size_ - 1) : new[i + 1] = old[i]]_vars

====
